---- MODULE Spec2Model ----
(***************************************************************************)
(* The image watermarking engine of useWatermark (src/unnamed/part_000):   *)
(* discovery of images, visibility-gated processing, the asynchronous bake *)
(* (load, cross-origin probe, export), the overlay fallback, the mutation  *)
(* observer and teardown, under an environment that scrolls, loads images, *)
(* changes source attributes and removes / re-inserts nodes.               *)
(*                                                                         *)
(* Scheduling.  Everything runs on one thread.  A task (an environment     *)
(* script, an IntersectionObserver callback, a load event, a probe result, *)
(* a toBlob callback) runs to completion together with the microtasks it   *)
(* queues; each action below is one task.  MutationObserver callbacks are  *)
(* microtasks: the records a task queues (the engine's own write of        *)
(* img.src, or a change the page's script makes) are delivered at the end  *)
(* of that task, so the callback is part of the action that queued them.   *)
(***************************************************************************)
EXTENDS Integers, Sequences, FiniteSets, Bags, TLC

\* ------------------------------------------------------------------ bounds
Imgs == {1, 2}
MaxBakes == 2      \* bakes in flight at the same time, all images together
MaxHandles == 2    \* URL.createObjectURL calls per image
MaxGen == 1        \* external source changes per image
MaxScans == 2      \* further discovery passes (SpecStatic only)
MaxRuns == 2       \* the run counter saturates here (0, 1, many)

\* --------------------------------------------------------------- constants
MinSize == 120     \* exclude: w < 120 || h < 120

\* ------------------------------------------------------------ the document
\* Containers: a dialog ([role=dialog]) holding a hero (.property-hero), and
\* a plain div directly under body.
Conts == {"dialog", "hero", "plain"}

\* The ancestors-or-self of container c, nearest first.
ContChain(c) == IF c = "hero" THEN <<"hero", "dialog">> ELSE <<c>>

\* c is d or a descendant of d.
Within(c, d) == \E k \in 1..Len(ContChain(c)) : ContChain(c)[k] = d

\* The containers setOverlay's closest() accepts:
\* [data-role=property-hero], .property-hero, .lightbox, [role=dialog].
Qualifying == {"dialog", "hero"}

\* External resources and their intrinsic sizes.  An image starts with one
\* of FirstUrls; the page replaces it by NextUrl.
FirstUrls == {"a", "s", "z"}
NextUrl == "b"

UrlSize(u) ==
  CASE u = "a" -> <<120, 120>>
    [] u = "s" -> <<100, 100>>
    [] u = "z" -> <<200, 0>>
    [] u = "b" -> <<200, 200>>

\* A source value of an image: the external URL of its generation g, the
\* n-th blob: handle the engine created for the image, or a data: URI.  g is
\* the generation whose pixels the value holds, which fixes its size.
ExtUrl(g) == [k |-> "url", n |-> 0, g |-> g]
BlobUrl(n, g) == [k |-> "blob", n |-> n, g |-> g]
DataUrl(g) == [k |-> "data", n |-> 0, g |-> g]
NoUrl == [k |-> "none", n |-> 0, g |-> 0]

\* CSS box side of an image (0: the image has no CSS size of its own).
CssSizes == {0, 300}

\* What the page's scripts do to an image.
PageKinds == {"swap", "move", "rerender", "optout"}

VARIABLES
  running,    \* the effect is mounted: io and mo are connected
  observed,   \* images the IntersectionObserver observes
  ovl,        \* container -> number of overlay nodes among its children
  bakes,      \* the process() calls suspended inside bakeWatermark (a bag)
  unhandled,  \* an error escaped process()
  doc,        \* the images of the page
  home,       \* image -> the container it is (re-)inserted in
  dataWm,     \* image -> it carries data-wm="1"
  css,        \* image -> CSS box side
  first,      \* image -> the external resource it starts with
  cors,       \* image -> its external resources allow cross-origin reads
  keeps,      \* the browser keeps the old pixels and size while a load is pending
  may,        \* image -> what the page's scripts do to it in this run
  attached,   \* image -> it has a parent element
  noWm,       \* image -> data-no-wm="true" or class no-wm
  visible,    \* image -> it intersects the viewport
  src,        \* image -> its src attribute
  shown,      \* image -> the resource whose pixels and size it currently has
  loading,    \* image -> a load is pending (complete is false)
  processed,  \* image -> dataset.wmProcessed === "1"
  wmUrl,      \* image -> dataset.wmUrl
  revoked,    \* the blob handles passed to URL.revokeObjectURL
  created,    \* image -> number of handles createObjectURL made for it
  gen,        \* image -> number of external changes of its source so far
  runs,       \* image -> terminal outcomes in the current generation
  fromBaked,  \* image -> the current generation replaced a baked source
  scans,      \* further discovery passes made
  lay,        \* the locals of the font sizing of bakeWatermark, when followed
  call,       \* one export of bakeWatermark and how it settled, when followed
  route,      \* one render of a route guard and what it returned, when followed
  req,        \* one call of api() and its transports, when followed
  rev         \* a mounted ReviewsList and its loads, when followed

vars == <<running, observed, ovl, bakes, unhandled, doc, home, dataWm, css,
          first, cors, keeps, may, attached, noWm, visible, src, shown, loading,
          processed, wmUrl, revoked, created, gen, runs, fromBaked, scans, lay,
          call, route, req, rev>>

\* The engine's state without the locals of the font sizing.
engine == <<running, observed, ovl, bakes, unhandled, doc, home, dataWm, css,
            first, cors, keeps, may, attached, noWm, visible, src, shown,
            loading, processed, wmUrl, revoked, created, gen, runs, fromBaked,
            scans>>

\* The font sizing is not followed.
NoLayout == [pc |-> "off", w |-> 0, h |-> 0, side |-> 0, baseW |-> 0,
             base |-> 0, fontPx |-> 0, textW |-> 0, margin |-> 0,
             xStart |-> 0, y |-> 0]

\* No export and no render is followed.
NoCall == [pc |-> "off"]
NoRoute == [pc |-> "off"]
NoReq == [pc |-> "off"]
NoRev == [pc |-> "off"]

\* The run's fixed setting.
setting == <<doc, home, dataWm, css, first, cors, keeps, may>>

\* ----------------------------------------------------------------- helpers
Min(a, b) == IF a < b THEN a ELSE b

\* The image is in the document (containers are never left detached).
InDoc(i) == attached[i]

\* selectors (the scope): an image under a hero, gallery, lightbox or dialog,
\* or img[data-wm="1"].
InScope(i) == attached[i] /\ (dataWm[i] \/ home[i] \in {"dialog", "hero"})

\* The intrinsic size of source value s of image i.
SizeOf(i, s) ==
  IF s.k = "none" THEN <<0, 0>>
  ELSE UrlSize(IF s.g = 0 THEN first[i] ELSE NextUrl)

naturalWidth(i) == SizeOf(i, shown[i])[1]
naturalHeight(i) == SizeOf(i, shown[i])[2]

\* img.width / img.height: the rendered box when the image is rendered with a
\* CSS size, else the intrinsic size (0 when there is none).
imgWidth(i) == IF attached[i] /\ css[i] # 0 THEN css[i] ELSE naturalWidth(i)
imgHeight(i) == IF attached[i] /\ css[i] # 0 THEN css[i] ELSE naturalHeight(i)

\* a || b || 0 of JavaScript on numbers.
OrElse(a, b) == IF a # 0 THEN a ELSE b

exclude(i) ==
  \/ noWm[i]
  \/ OrElse(naturalWidth(i), imgWidth(i)) < MinSize
  \/ OrElse(naturalHeight(i), imgHeight(i)) < MinSize

alreadyProcessed(i) == processed[i]

\* The filter of observeExisting and of the childList branch.
Discoverable(i) == ~alreadyProcessed(i) /\ ~exclude(i)

\* ------------------------------------------------------------- setOverlay
\* img.closest("[data-role=property-hero], .property-hero, .lightbox,
\* [role=dialog]") || img.parentElement; "none" when the image has no parent.
RECURSIVE FirstQualifying(_, _)
FirstQualifying(chain, k) ==
  IF k > Len(chain) THEN "none"
  ELSE IF chain[k] \in Qualifying THEN chain[k]
  ELSE FirstQualifying(chain, k + 1)

Host(i) ==
  IF ~attached[i] THEN "none"
  ELSE LET q == FirstQualifying(ContChain(home[i]), 1)
       IN IF q # "none" THEN q ELSE home[i]

\* host.querySelector("[data-wm-overlay='1']"): an overlay anywhere below h.
HasOverlayIn(h, o) == \E c \in Conts : Within(c, h) /\ o[c] > 0

\* The overlays after setOverlay(img): nothing without a host, nothing when
\* the query finds an overlay, else one more child of the host.
setOverlay(i, o) ==
  LET h == Host(i)
  IN IF h = "none" \/ HasOverlayIn(h, o) THEN o ELSE [o EXCEPT ![h] = @ + 1]

\* ------------------------------------------------------- mutation observer
\* The images under container c that match the selectors.
ScopedIn(c) == {i \in Imgs : InScope(i) /\ Within(home[i], c)}

\* The MutationObserver callback on the records q, from the markers p and the
\* observed set o, X being the images exclude() rejects and S[c] the images
\* under element c that match the selectors: a pair <<markers, observed set>>.
\*   childList, an image added:    observe it if not processed, not excluded
\*   childList, an element added:  the same for its images matching selectors
\*   attributes, src of an image:  clear the marker, observe if not excluded
RECURSIVE Deliver(_, _, _, _, _)
Deliver(q, p, o, X, S) ==
  IF q = <<>> THEN <<p, o>>
  ELSE LET m == Head(q)
           ok(i) == ~p[i] /\ i \notin X
       IN CASE m.t = "addImg" ->
                 Deliver(Tail(q), p, IF ok(m.x) THEN o \cup {m.x} ELSE o, X, S)
            [] m.t = "addEl" ->
                 Deliver(Tail(q), p, o \cup {i \in S[m.x] : ok(i)}, X, S)
            [] OTHER ->
                 Deliver(Tail(q), [p EXCEPT ![m.x] = FALSE],
                         IF m.x \notin X THEN o \cup {m.x} ELSE o, X, S)

\* The microtask that ends a task which queued the records q, the task
\* having left the markers p: the callback runs if mo is connected, on the
\* document as the task left it.
Microtask(q, p) ==
  LET r == IF running /\ q # <<>>
           THEN Deliver(q, p, observed, {i \in Imgs : exclude(i)'},
                        [c \in Conts |-> ScopedIn(c)'])
           ELSE <<p, observed>>
  IN processed' = r[1] /\ observed' = r[2]

\* The record of a change of the src attribute of image i: the observer
\* watches document.body and its subtree.
SrcRecord(i) == IF InDoc(i) THEN <<[t |-> "attr", x |-> i]>> ELSE <<>>

\* observeExisting: querySelectorAll(selectors) filtered by the two markers.
observeExisting == observed \cup {i \in Imgs : InScope(i) /\ Discoverable(i)}


\* ---------------------------------------------------------------- process
\* What bakeWatermark rejects with.
Failures == {"img-error", "no-size", "cors-blocked", "ctx", "tainted", "toDataURL"}

\* A catch that lets everything but the probe's rejection through.
CaughtProbeOnly(e) == e = "cors-blocked"

\* process wraps the await of bakeWatermark in try { } catch { }: every
\* rejection is caught.
Caught(e) == TRUE

\* Lines 249-253: the bake of image i rejected with e, in n process() calls
\* of the current generation resumed by this task.
Fallback(i, e, n) ==
  IF Caught(e)
  THEN /\ ovl' = setOverlay(i, ovl)
       /\ processed' = [processed EXCEPT ![i] = TRUE]
       /\ runs' = [runs EXCEPT ![i] = Min(@ + n, MaxRuns)]
       /\ UNCHANGED unhandled
  ELSE /\ unhandled' = TRUE
       /\ UNCHANGED <<ovl, processed, runs>>

\* Assigning img.src starts a load; until it ends the image keeps the old
\* pixels and size, or has none, depending on the browser.
Reload(i) ==
  /\ loading' = [loading EXCEPT ![i] = TRUE]
  /\ shown' = [shown EXCEPT ![i] = IF keeps THEN @ ELSE NoUrl]

\* A process that reads the handle marker after writing it.
SupersededLate(i, url) == url

\* Line 238: prev, the handle marker read before url is written to it.
Superseded(i, url) == wmUrl[i]

\* Lines 237-247: bakeWatermark resolved with url for bake b: the source is
\* rewritten, the previous handle revoked, the image marked; the observer's
\* callback on the src record ends the task.
Install(b, url) ==
  LET i == b.img
      prev == Superseded(i, url)
  IN /\ src' = [src EXCEPT ![i] = url]
     /\ wmUrl' = [wmUrl EXCEPT ![i] = url]
     /\ revoked' = IF prev.k = "blob" THEN revoked \cup {<<i, prev.n>>} ELSE revoked
     /\ runs' = [runs EXCEPT ![i] = IF b.g = gen[i] THEN Min(@ + 1, MaxRuns) ELSE @]
     /\ Reload(i)
     /\ Microtask(SrcRecord(i), [processed EXCEPT ![i] = TRUE])

\* A suspended bake of image img: waiting for the image's load ("load"), for
\* the cross-origin copy ("probe") or for toBlob ("export").  From the probe
\* on it holds the source it read: g, the generation of those pixels, and
\* ext, whether that source is an external URL.
Waiter(i) == [img |-> i, pc |-> "load", g |-> 0, ext |-> FALSE]
Prober(i, s) == [img |-> i, pc |-> "probe", g |-> s.g, ext |-> s.k = "url"]

InFlight == BagToSet(bakes)
Add(bag, b) == bag (+) SetToBag({b})
Remove(bag, b) == bag (-) SetToBag({b})
HasRoom == BagCardinality(bakes) < MaxBakes

\* A process that tests the marker only.
SkipsProcessed(i) == alreadyProcessed(i)

\* Line 234: process returns at once.
Skips(i) == alreadyProcessed(i) \/ exclude(i)

\* ensureLoaded resolves at once: complete and naturalWidth > 0.
LoadedNow(i) == ~loading[i] /\ naturalWidth(i) > 0

\* The IntersectionObserver callback for one intersecting entry:
\* process(e.target) up to its first real suspension, then io.unobserve.
IOFire(i) ==
  /\ running
  /\ i \in observed /\ visible[i] /\ InDoc(i)
  /\ observed' = observed \ {i}
  /\ IF Skips(i)
     THEN UNCHANGED <<ovl, processed, runs, unhandled, bakes>>
     ELSE IF LoadedNow(i) /\ naturalHeight(i) = 0
     THEN Fallback(i, "no-size", 1) /\ UNCHANGED bakes
     ELSE /\ HasRoom
          /\ bakes' = Add(bakes, IF LoadedNow(i) THEN Prober(i, shown[i])
                                                 ELSE Waiter(i))
          /\ UNCHANGED <<ovl, processed, runs, unhandled>>
  /\ UNCHANGED <<running, attached, noWm, visible, src, shown, loading, wmUrl,
                 revoked, created, gen, fromBaked, scans>>
  /\ UNCHANGED <<setting, lay, call, route, req, rev>>

\* The number of bakes of image i waiting for its load.
Waiting(i) == CopiesIn(Waiter(i), bakes)
Resume(i, s) ==
  [b \in (InFlight \ {Waiter(i)}) \cup {Prober(i, s)} |->
     IF b = Prober(i, s) THEN CopiesIn(b, bakes) + Waiting(i) ELSE bakes[b]]
\* An onError that settles nothing and leaves its listeners on the image.
KeepListeners(i) == bakes

\* onError: every pending call of image i is rejected, its listeners removed.
Drop(i) == [b \in InFlight \ {Waiter(i)} |-> bakes[b]]

\* The image's load event: the pending load ends, and every ensureLoaded
\* listener resolves; each bake goes on to the size check and the probe.
ImgLoad(i) ==
  /\ loading[i]
  /\ loading' = [loading EXCEPT ![i] = FALSE]
  /\ shown' = [shown EXCEPT ![i] = src[i]]
  /\ IF Waiting(i) = 0
     THEN UNCHANGED <<bakes, ovl, processed, runs, unhandled>>
     ELSE IF SizeOf(i, src[i])[1] = 0 \/ SizeOf(i, src[i])[2] = 0
     THEN bakes' = Drop(i) /\ Fallback(i, "no-size", Waiting(i))
     ELSE /\ bakes' = Resume(i, src[i])
          /\ UNCHANGED <<ovl, processed, runs, unhandled>>
  /\ UNCHANGED <<running, observed, attached, noWm, visible, src, wmUrl,
                 revoked, created, gen, fromBaked, scans>>
  /\ UNCHANGED <<setting, lay, call, route, req, rev>>

\* The image's error event (an external resource that cannot be fetched):
\* every ensureLoaded listener rejects with img-error.
ImgError(i) ==
  /\ loading[i] /\ src[i].k = "url"
  /\ loading' = [loading EXCEPT ![i] = FALSE]
  /\ shown' = [shown EXCEPT ![i] = NoUrl]
  /\ IF Waiting(i) = 0
     THEN UNCHANGED <<bakes, ovl, processed, runs, unhandled>>
     ELSE bakes' = Drop(i) /\ Fallback(i, "img-error", Waiting(i))
  /\ UNCHANGED <<running, observed, attached, noWm, visible, src, wmUrl,
                 revoked, created, gen, fromBaked, scans>>
  /\ UNCHANGED <<setting, lay, call, route, req, rev>>

\* The cross-origin copy settles.  On success the canvas is painted and
\* toBlob is called, which can fail at once; on failure the bake rejects.
\* Only an external resource can be refused, and one served without
\* cross-origin headers always is.
ProbeOutcomes == {"ok", "cors-blocked", "ctx", "tainted"}

ProbeSettle(b, out) ==
  /\ b \in InFlight /\ b.pc = "probe"
  /\ out = "cors-blocked" => b.ext
  /\ out # "cors-blocked" => ~b.ext \/ cors[b.img]
  /\ IF out = "ok"
     THEN /\ bakes' = Add(Remove(bakes, b), [b EXCEPT !.pc = "export"])
          /\ UNCHANGED <<ovl, processed, runs, unhandled>>
     ELSE /\ bakes' = Remove(bakes, b)
          /\ Fallback(b.img, out, IF b.g = gen[b.img] THEN 1 ELSE 0)
  /\ UNCHANGED <<running, observed, attached, noWm, visible, src, shown,
                 loading, wmUrl, revoked, created, gen, fromBaked, scans>>
  /\ UNCHANGED <<setting, lay, call, route, req, rev>>

\* The toBlob callback: a blob (createObjectURL), or no blob and then
\* toDataURL, which returns a data: URI or throws.
ExportOutcomes == {"blob", "data", "toDataURL"}

ExportSettle(b, out) ==
  /\ b \in InFlight /\ b.pc = "export"
  /\ bakes' = Remove(bakes, b)
  /\ UNCHANGED <<running, attached, noWm, visible, gen, fromBaked, scans>>
  /\ UNCHANGED <<setting, lay, call, route, req, rev>>
  /\ CASE out = "blob" ->
            /\ created[b.img] < MaxHandles
            /\ created' = [created EXCEPT ![b.img] = @ + 1]
            /\ Install(b, BlobUrl(created[b.img] + 1, b.g))
            /\ UNCHANGED <<ovl, unhandled>>
       [] out = "data" ->
            /\ Install(b, DataUrl(b.g))
            /\ UNCHANGED <<ovl, unhandled, created>>
       [] OTHER ->
            /\ Fallback(b.img, "toDataURL", IF b.g = gen[b.img] THEN 1 ELSE 0)
            /\ UNCHANGED <<observed, src, shown, loading, wmUrl, revoked, created>>


\* ------------------------------------------------------------ the page
\* The page's scripts touch the images while the surface is mounted; each
\* script makes one change.

\* The page sets img.src to NextUrl.  The resource may be available at once
\* (cached); else a load starts.
ExtSetSrc(i, cached) ==
  /\ running /\ "swap" \in may[i]
  /\ gen[i] < MaxGen
  /\ UNCHANGED <<running, ovl, bakes, unhandled, attached, noWm, visible,
                 wmUrl, revoked, created, scans>>
  /\ UNCHANGED <<setting, lay, call, route, req, rev>>
  /\ src' = [src EXCEPT ![i] = ExtUrl(gen[i] + 1)]
  /\ gen' = [gen EXCEPT ![i] = @ + 1]
  /\ runs' = [runs EXCEPT ![i] = 0]
  /\ fromBaked' = [fromBaked EXCEPT ![i] =
                     src[i] = wmUrl[i] /\ src[i].k \in {"blob", "data"}]
  /\ IF cached
     THEN /\ loading' = [loading EXCEPT ![i] = FALSE]
          /\ shown' = [shown EXCEPT ![i] = ExtUrl(gen[i] + 1)]
     ELSE Reload(i)
  /\ Microtask(SrcRecord(i), processed)

\* The page removes the image from its parent (removed nodes are ignored by
\* the callback).
ExtRemove(i) ==
  /\ running /\ "move" \in may[i]
  /\ attached[i]
  /\ attached' = [attached EXCEPT ![i] = FALSE]
  /\ UNCHANGED <<running, observed, ovl, bakes, unhandled, noWm, visible, src,
                 shown, loading, processed, wmUrl, revoked, created, gen, runs,
                 fromBaked, scans>>
  /\ UNCHANGED <<setting, lay, call, route, req, rev>>

\* The page appends the image to its container again.
ExtInsert(i) ==
  /\ running /\ "move" \in may[i]
  /\ ~attached[i]
  /\ attached' = [attached EXCEPT ![i] = TRUE]
  /\ UNCHANGED <<running, ovl, bakes, unhandled, noWm, visible, src, shown,
                 loading, wmUrl, revoked, created, gen, runs, fromBaked, scans>>
  /\ UNCHANGED <<setting, lay, call, route, req, rev>>
  /\ Microtask(<<[t |-> "addImg", x |-> i]>>, processed)

\* The page takes the container of the image out and puts it back (a
\* re-render of that part of the tree).
ExtReinsert(i) ==
  /\ running /\ "rerender" \in may[i]
  /\ UNCHANGED <<running, ovl, bakes, unhandled, attached, noWm, visible, src,
                 shown, loading, wmUrl, revoked, created, gen, runs, fromBaked,
                 scans>>
  /\ UNCHANGED <<setting, lay, call, route, req, rev>>
  /\ Microtask(<<[t |-> "addEl", x |-> home[i]]>>, processed)

\* The page opts the image out (data-no-wm="true" or class no-wm).
ExtOptOut(i) ==
  /\ running /\ "optout" \in may[i]
  /\ ~noWm[i]
  /\ noWm' = [noWm EXCEPT ![i] = TRUE]
  /\ UNCHANGED <<running, observed, ovl, bakes, unhandled, attached, visible,
                 src, shown, loading, processed, wmUrl, revoked, created, gen,
                 runs, fromBaked, scans>>
  /\ UNCHANGED <<setting, lay, call, route, req, rev>>

\* The image scrolls into or out of the viewport.
Scroll(i) ==
  /\ i \in doc
  /\ visible' = [visible EXCEPT ![i] = ~@]
  /\ UNCHANGED <<running, observed, ovl, bakes, unhandled, attached, noWm, src,
                 shown, loading, processed, wmUrl, revoked, created, gen, runs,
                 fromBaked, scans>>
  /\ UNCHANGED <<setting, lay, call, route, req, rev>>

\* --------------------------------------------------------------- lifecycle
\* A cleanup that leaves the overlays in place.
keepOverlays(o) == o

\* Lines 319-321: querySelectorAll("[data-wm-overlay='1']") over the document,
\* each removed.  Every container is in the document.
removeOverlays(o) == [c \in Conts |-> 0]

\* The effect's cleanup: io.disconnect(), mo.disconnect(), and every overlay
\* in the document is removed.
Teardown ==
  /\ running
  /\ running' = FALSE
  /\ observed' = {}
  /\ ovl' = removeOverlays(ovl)
  /\ UNCHANGED <<bakes, unhandled, attached, noWm, visible, src, shown, loading,
                 processed, wmUrl, revoked, created, gen, runs, fromBaked, scans>>
  /\ UNCHANGED <<setting, lay, call, route, req, rev>>

\* The effect runs again (remount): fresh observers, then observeExisting.
Mount ==
  /\ ~running
  /\ running' = TRUE
  /\ observed' = observeExisting
  /\ UNCHANGED <<ovl, bakes, unhandled, attached, noWm, visible, src, shown,
                 loading, processed, wmUrl, revoked, created, gen, runs,
                 fromBaked, scans>>
  /\ UNCHANGED <<setting, lay, call, route, req, rev>>

\* A further discovery pass of the running engine.
Rescan ==
  /\ running
  /\ scans < MaxScans
  /\ scans' = scans + 1
  /\ observed' = observeExisting
  /\ UNCHANGED <<running, ovl, bakes, unhandled, attached, noWm, visible, src,
                 shown, loading, processed, wmUrl, revoked, created, gen, runs,
                 fromBaked>>
  /\ UNCHANGED <<setting, lay, call, route, req, rev>>

\* ----------------------------------------------------------- specification
\* The state when the effect has run on a page: the images of the page, each
\* loaded or still loading, none processed, and the first observeExisting
\* done.  An image that is not part of the page has no parent and no load.
Blank ==
  /\ attached = [i \in Imgs |-> i \in doc]
  /\ noWm = [i \in Imgs |-> FALSE]
  /\ visible = [i \in Imgs |-> FALSE]
  /\ src = [i \in Imgs |-> ExtUrl(0)]
  /\ shown = [i \in Imgs |-> IF loading[i] THEN NoUrl ELSE ExtUrl(0)]
  /\ processed = [i \in Imgs |-> FALSE]
  /\ wmUrl = [i \in Imgs |-> NoUrl]
  /\ revoked = {}
  /\ created = [i \in Imgs |-> 0]
  /\ gen = [i \in Imgs |-> 0]
  /\ runs = [i \in Imgs |-> 0]
  /\ fromBaked = [i \in Imgs |-> FALSE]
  /\ scans = 0
  /\ lay = NoLayout
  /\ call = NoCall
  /\ route = NoRoute
  /\ req = NoReq
  /\ rev = NoRev
  /\ running = TRUE
  /\ ovl = [c \in Conts |-> 0]
  /\ bakes = EmptyBag
  /\ unhandled = FALSE
  /\ observed = {i \in Imgs : InScope(i) /\ Discoverable(i)}

\* One image, in the hero, with any resource, CSS size and load state; the
\* page does one kind of thing to it.
InitSolo ==
  /\ doc = {1}
  /\ home = (1 :> "hero" @@ 2 :> "plain")
  /\ dataWm = [i \in Imgs |-> FALSE]
  /\ css \in {c \in [Imgs -> CssSizes] : c[2] = 0}
  /\ first \in {f \in [Imgs -> FirstUrls] : f[2] = "a"}
  /\ cors = [i \in Imgs |-> TRUE]
  /\ keeps \in BOOLEAN
  /\ \E k \in PageKinds : may = (1 :> {k} @@ 2 :> {})
  /\ loading \in {l \in [Imgs -> BOOLEAN] : ~l[2]}
  /\ Blank

\* Two images of resource "a" with a CSS size: image 1 in the hero inside the
\* dialog that holds image 2, whose resource is served without cross-origin
\* headers.  The page moves or re-renders image 1.
InitNested ==
  /\ doc = {1, 2}
  /\ home = (1 :> "hero" @@ 2 :> "dialog")
  /\ dataWm = [i \in Imgs |-> FALSE]
  /\ css = [i \in Imgs |-> 300]
  /\ first = [i \in Imgs |-> "a"]
  /\ cors = (1 :> TRUE @@ 2 :> FALSE)
  /\ keeps \in BOOLEAN
  /\ \E k \in {"move", "rerender"} : may = (1 :> {k} @@ 2 :> {})
  /\ loading \in [Imgs -> BOOLEAN]
  /\ Blank

\* Two images of resource "a" in the plain div: image 2 flagged data-wm="1"
\* and served without cross-origin headers, image 1 not flagged (it is
\* outside the scope).  The page does one kind of thing to image 1.
InitPlain ==
  /\ doc = {1, 2}
  /\ home = [i \in Imgs |-> "plain"]
  /\ dataWm = (1 :> FALSE @@ 2 :> TRUE)
  /\ css = [i \in Imgs |-> 300]
  /\ first = [i \in Imgs |-> "a"]
  /\ cors = (1 :> TRUE @@ 2 :> FALSE)
  /\ keeps \in BOOLEAN
  /\ \E k \in PageKinds : may = (1 :> {k} @@ 2 :> {})
  /\ loading \in [Imgs -> BOOLEAN]
  /\ Blank

Init == InitSolo \/ InitNested \/ InitPlain

Engine ==
  \/ \E i \in Imgs : IOFire(i)
  \/ \E b \in InFlight : \E out \in ProbeOutcomes : ProbeSettle(b, out)
  \/ \E b \in InFlight : \E out \in ExportOutcomes : ExportSettle(b, out)

Events ==
  \/ \E i \in Imgs : ImgLoad(i)
  \/ \E i \in Imgs : ImgError(i)
  \/ \E i \in Imgs : Scroll(i)

Page ==
  \/ \E i \in Imgs : \E cached \in BOOLEAN : ExtSetSrc(i, cached)
  \/ \E i \in Imgs : ExtRemove(i)
  \/ \E i \in Imgs : ExtInsert(i)
  \/ \E i \in Imgs : ExtReinsert(i)
  \/ \E i \in Imgs : ExtOptOut(i)

Next == Engine \/ Events \/ Page \/ Teardown \/ Mount

Spec == Init /\ [][Next]_vars


\* The engine on a page whose tree nothing else changes: scrolling, loads,
\* and further discovery passes.
NextStatic == Engine \/ Events \/ Rescan

SpecStatic == Init /\ [][NextStatic]_vars

\* ------------------------------------------------------------------ claims
\* The bakes of image i in flight for its current generation: a bake still
\* waiting for the load will read the current source.
BakesOf(i) ==
  LET S == {b \in InFlight : b.img = i /\ (b.pc = "load" \/ b.g = gen[i])}
  IN IF S = {} THEN 0 ELSE BagCardinality([b \in S |-> bakes[b]])

\* Nothing more is due for image i: no bake of it is in flight and no
\* visibility event is pending.
Quiet(i) ==
  /\ \A b \in InFlight : b.img # i
  /\ ~(i \in observed /\ visible[i])

\* The source of image i is the value the engine installed last.
ShowsBaked(i) == wmUrl[i].k # "none" /\ src[i] = wmUrl[i]

\* This step rewrote the source of image i without a change by the page.
EngineWrote(i) == src'[i] # src[i] /\ gen'[i] = gen[i]

\* C1: the mutation event of the engine's own write of img.src leaves the
\* processed marker set and does not start visibility observation again.
C1_OwnWriteKeepsMarker ==
  [][\A i \in Imgs : EngineWrote(i) =>
        processed'[i] /\ (i \in observed' => i \in observed)]_vars

\* C2: on a tree nothing else changes, with the discovery pass run twice,
\* once bakes and visibility events have settled every image was processed
\* once: at most one handle was created for it and its container has at most
\* one overlay.
C2_TwoPassesProcessOnce ==
  (scans >= 1 /\ \A j \in Imgs : Quiet(j)) =>
    \A i \in Imgs :
      /\ created[i] <= 1
      /\ Host(i) # "none" => ovl[Host(i)] <= 1

\* C3: an image reaches a terminal outcome (baked or overlaid) at most once
\* per source generation.
C3_OnceEachGeneration == \A i \in Imgs : runs[i] <= 1

\* C4: no two bakes are in flight for the same image and generation.
C4_OneBakeInFlight == \A i \in Imgs : BakesOf(i) <= 1

\* C5: once torn down, a bake that settles attaches no overlay, starts no
\* observation, rewrites no source and throws nothing.
C5_NothingAfterTeardown ==
  [][(~running /\ ~running') =>
        ovl' = ovl /\ observed' = observed /\ src' = src /\ unhandled' = unhandled]_vars

\* C6: after a baked image's source is changed once by the page, the image
\* reaches exactly one further terminal outcome: never a second one, and one
\* once it is loaded, visible and nothing more is due.
C6_OneRunAfterSwap ==
  \A i \in Imgs :
    (fromBaked[i] /\ gen[i] = 1) =>
      /\ runs[i] <= 1
      /\ (running /\ InScope(i) /\ ~noWm[i] /\ visible[i] /\ ~loading[i]
            /\ shown[i] = src[i] /\ Quiet(i)) => runs[i] = 1

\* C7: an eligible in-scope image that is loaded and visible, with nothing
\* more due for it, is processed.
C7_VisibleEligibleProcessed ==
  \A i \in Imgs :
    (running /\ InScope(i) /\ ~noWm[i] /\ visible[i] /\ ~loading[i]
       /\ naturalWidth(i) >= MinSize /\ naturalHeight(i) >= MinSize /\ Quiet(i))
    => processed[i]

\* C8: while the engine runs, a processed image with a container shows the
\* handle the engine installed or has an overlay on its container.
C8_ProcessedIsMarked ==
  \A i \in Imgs :
    (running /\ processed[i] /\ Host(i) # "none") =>
      ShowsBaked(i) \/ ovl[Host(i)] > 0

\* The task in which a bake of image i rejects.
BakeFails(i) ==
  \/ \E b \in InFlight : \E out \in ProbeOutcomes \ {"ok"} :
       b.img = i /\ ProbeSettle(b, out)
  \/ \E b \in InFlight : b.img = i /\ ExportSettle(b, "toDataURL")
  \/ Waiting(i) > 0 /\ ImgError(i)
  \/ Waiting(i) > 0 /\ ImgLoad(i)
       /\ (SizeOf(i, src[i])[1] = 0 \/ SizeOf(i, src[i])[2] = 0)
  \/ ~alreadyProcessed(i) /\ ~exclude(i) /\ LoadedNow(i) /\ naturalHeight(i) = 0
       /\ IOFire(i)

\* C9: every rejection of a bake is caught in process: the overlay fallback
\* runs (the host, if any, has an overlay below it), the image is marked, no
\* error escapes, and the bakes and markers of other images are untouched.
C9_FailureFallsBack ==
  [][\A i \in Imgs : BakeFails(i) =>
        /\ processed'[i]
        /\ ~unhandled'
        /\ Host(i) # "none" => HasOverlayIn(Host(i), ovl')
        /\ \A b \in InFlight : b.img # i => CopiesIn(b, bakes') = CopiesIn(b, bakes)
        /\ \A j \in Imgs \ {i} : processed'[j] = processed[j]]_vars

\* A bake of image 1 was rejected and handled while a bake of image 2 is in
\* flight.
C9_Witness ==
  /\ processed[1] /\ wmUrl[1] = NoUrl /\ runs[1] = 1
  /\ Host(1) # "none" /\ HasOverlayIn(Host(1), ovl)
  /\ \E b \in InFlight : b.img = 2
  /\ ~unhandled

\* C10: when the probe rejects, the image's host (its nearest hero, lightbox
\* or dialog ancestor, else its parent) has exactly one overlay of its own,
\* and no handle is the image's source or recorded in its handle marker.
C10_ProbeRejectOverlay ==
  [][\A b \in InFlight :
        (ProbeSettle(b, "cors-blocked") /\ Host(b.img) # "none") =>
          /\ ovl'[Host(b.img)] = 1
          /\ src'[b.img].k # "blob"
          /\ wmUrl'[b.img].k # "blob"]_vars


\* C11: a handle is released only in a step that leaves a newer value
\* installed as the image's source and handle marker, and the source of an
\* image is never a handle that has been released.
C11_ReleaseAfterInstall ==
  [][\A i \in Imgs :
        /\ \A n \in 1..MaxHandles :
             (<<i, n>> \in revoked' /\ <<i, n>> \notin revoked) =>
               /\ src'[i] # src[i] /\ src'[i] = wmUrl'[i]
               /\ src'[i].k \in {"blob", "data"}
               /\ src'[i] # BlobUrl(n, src'[i].g)
        /\ src'[i].k = "blob" => <<i, src'[i].n>> \notin revoked']_vars

\* Image 1 was baked twice: its first handle is released, its second is its
\* source.
C11_Witness ==
  /\ <<1, 1>> \in revoked
  /\ src[1].k = "blob" /\ src[1].n = 2 /\ wmUrl[1] = src[1]


\* The handles made for image i that were not passed to revokeObjectURL.
Unreleased(i) == {n \in 1..created[i] : <<i, n>> \notin revoked}

\* C12: an image has at most one unreleased handle, and once the current
\* generation has reached its outcome, baked or overlaid, no handle of an
\* earlier generation is left unreleased.
C12_OneLiveHandle ==
  \A i \in Imgs :
    /\ Cardinality(Unreleased(i)) <= 1
    /\ runs[i] >= 1 =>
         \A n \in Unreleased(i) : wmUrl[i] = BlobUrl(n, gen[i])


\* C13: an image of the page that is out of the tree, with nothing more due
\* for it, has no unreleased handle.
C13_RemovedImageReleased ==
  \A i \in doc : (~attached[i] /\ Quiet(i)) => Unreleased(i) = {}


\* No selector can match image i wherever it is attached.
OutOfScope(i) == ~dataWm[i] /\ home[i] \notin Qualifying

\* C14: an image no selector matches is never observed, baked, overlaid or
\* marked.
C14_ScopeOnly ==
  \A i \in Imgs :
    OutOfScope(i) =>
      /\ i \notin observed
      /\ \A b \in InFlight : b.img # i
      /\ ~processed[i] /\ runs[i] = 0 /\ wmUrl[i] = NoUrl


\* The page's first source of image i is below the minimum in a dimension
\* and is still its source.
Small(i) ==
  /\ gen[i] = 0
  /\ (UrlSize(first[i])[1] < MinSize \/ UrlSize(first[i])[2] < MinSize)

\* C15: an image whose natural size is below 120 in a dimension is never
\* baked, overlaid or marked, and a loaded 120x120 image without opt-out is
\* not excluded.
C15_SmallNeverProcessed ==
  \A i \in Imgs :
    /\ Small(i) =>
         ~processed[i] /\ runs[i] = 0 /\ created[i] = 0 /\ wmUrl[i] = NoUrl
    /\ (UrlSize(first[i]) = <<MinSize, MinSize>> /\ shown[i] = ExtUrl(0)
          /\ ~noWm[i]) => ~exclude(i)


\* C16: exclude is false for an image that has no intrinsic size yet and
\* carries no opt-out.
C16_UnloadedNotExcluded ==
  \A i \in Imgs : (shown[i] = NoUrl /\ ~noWm[i]) => ~exclude(i)


\* ----------------------------------------------------------- font sizing
\* Lines 105-125 of bakeWatermark, followed on their own.  The inputs are
\* the raster width w, the shorter displayed side, and the font: ctx.
\* measureText gives glyph widths proportional to the font size, so a font is
\* given by the width of the spaced text at the base size.  Widths are kept
\* as numerators over the base font size, which keeps them exact.
MaxSide == 400
RasterWidths == {120, 200, 400}
BaseWidths == {100, 300}
RasterHeights == {20, 200, 400}

\* TEXT = "ashishproperties.in".
TextLength == 19
\* Math.max(24, ...) of the base size; Math.max(18, ...) of the shrunk one.
MinBaseFont == 24
MinShrunkFont == 18

Max(a, b) == IF a > b THEN a ELSE b

\* Math.round(base * 0.16) and Math.round(fontPx * 0.06).
RoundSide(base) == (16 * base + 50) \div 100
RoundSpacing(fontPx) == (6 * fontPx + 50) \div 100

\* measureTextWithSpacing at size fontPx, times the base size F, for the
\* font whose spaced text is baseW wide at F: the glyphs scale with the
\* size, the TextLength - 1 gaps are letterSpacing each.
measureTextWithSpacing(baseW, F, fontPx, letterSpacing) ==
  (baseW - (TextLength - 1) * RoundSpacing(F)) * fontPx
    + (TextLength - 1) * letterSpacing * F

\* Lines 110-115: the base size and the first measurement.
LayoutMeasure ==
  /\ lay.pc = "start"
  /\ LET F == Max(MinBaseFont, RoundSide(lay.side))
     IN lay' = [lay EXCEPT !.pc = "measured", !.base = F, !.fontPx = F,
                           !.textW = measureTextWithSpacing(lay.baseW, F, F,
                                                            RoundSpacing(F))]
  /\ UNCHANGED <<engine, call, route, req, rev>>

\* Lines 117-124: if (textW > w * 0.7) shrink once and measure again.
LayoutConstrain ==
  /\ lay.pc = "measured"
  /\ IF 10 * lay.textW > 7 * lay.w * lay.base
     THEN LET F == lay.base
              f == Max(MinShrunkFont,
                       (7 * lay.w * F * lay.fontPx) \div (10 * lay.textW))
          IN lay' = [lay EXCEPT !.pc = "done", !.fontPx = f,
                                !.textW = measureTextWithSpacing(
                                            lay.baseW, F, f,
                                            RoundSpacing(f))]
     ELSE lay' = [lay EXCEPT !.pc = "done"]
  /\ UNCHANGED <<engine, call, route, req, rev>>

\* Math.round(Math.min(w, h) * 0.035).
RoundMargin(m) == (35 * m + 500) \div 1000

\* Line 129 without its clamp: the baseline a margin above the bottom edge.
BaselineUnclamped(fontPx, margin, h) == h - margin

\* Line 129: y = Math.max(fontPx + margin, h - margin).
Baseline(fontPx, margin, h) == Max(fontPx + margin, h - margin)

\* Lines 127-129: the margin and the anchor of the text.  xStart, like textW,
\* is kept as a numerator over the base size.
LayoutAnchor ==
  /\ lay.pc = "done"
  /\ LET margin == Max(12, RoundMargin(Min(lay.w, lay.h)))
     IN lay' = [lay EXCEPT !.pc = "anchored", !.margin = margin,
                           !.xStart = Max(0, lay.w * lay.base - lay.textW
                                               - margin * lay.base),
                           !.y = Baseline(lay.fontPx, margin, lay.h)]
  /\ UNCHANGED <<engine, call, route, req, rev>>

\* The engine with the one image of the page in a bake past its probe.
OneBake ==
  /\ doc = {1}
  /\ home = (1 :> "hero" @@ 2 :> "plain")
  /\ dataWm = [i \in Imgs |-> FALSE]
  /\ css = [i \in Imgs |-> 0]
  /\ first = [i \in Imgs |-> "a"]
  /\ cors = [i \in Imgs |-> TRUE]
  /\ keeps = TRUE
  /\ may = [i \in Imgs |-> {}]
  /\ loading = [i \in Imgs |-> FALSE]
  /\ attached = [i \in Imgs |-> i \in doc]
  /\ noWm = [i \in Imgs |-> FALSE]
  /\ visible = [i \in Imgs |-> i \in doc]
  /\ src = [i \in Imgs |-> ExtUrl(0)]
  /\ shown = [i \in Imgs |-> ExtUrl(0)]
  /\ processed = [i \in Imgs |-> FALSE]
  /\ wmUrl = [i \in Imgs |-> NoUrl]
  /\ revoked = {}
  /\ created = [i \in Imgs |-> 0]
  /\ gen = [i \in Imgs |-> 0]
  /\ runs = [i \in Imgs |-> 0]
  /\ fromBaked = [i \in Imgs |-> FALSE]
  /\ scans = 0
  /\ running = TRUE
  /\ ovl = [c \in Conts |-> 0]
  /\ bakes = SetToBag({Prober(1, ExtUrl(0))})
  /\ unhandled = FALSE
  /\ observed = {}

\* A bake of the one image of the page has reached the font sizing, with any
\* raster size, displayed side and font.
InitLayout ==
  /\ OneBake
  /\ call = NoCall
  /\ route = NoRoute
  /\ req = NoReq
  /\ rev = NoRev
  /\ \E w \in RasterWidths : \E h \in RasterHeights :
     \E side \in 1..MaxSide : \E t \in BaseWidths :
       lay = [NoLayout EXCEPT !.pc = "start", !.w = w, !.h = h,
                              !.side = side, !.baseW = t]

NextLayout == LayoutMeasure \/ LayoutConstrain \/ LayoutAnchor

SpecLayout == InitLayout /\ [][NextLayout]_vars

\* C17: for a raster 200 wide and a text 300 wide at the base size, the
\* layout ends with a size below the base size and a text at most 141 wide
\* (140, 70% of the raster width, and 1 of tolerance).
C17_ShrinkToFit ==
  (lay.pc = "done" /\ lay.w = 200 /\ lay.baseW = 300) =>
    /\ lay.fontPx < lay.base
    /\ lay.textW <= 141 * lay.base


\* C18: the step of the cleanup leaves no image observed, the mutation
\* observer disconnected and no overlay in the document, whatever is
\* processed or in flight.
C18_TeardownClears ==
  [][(running /\ ~running') =>
        observed' = {} /\ \A c \in Conts : ovl'[c] = 0]_vars

\* The engine is torn down after image 1 took the overlay path, with a bake
\* still in flight: nothing is observed and no overlay is left.
C18_Witness ==
  /\ ~running /\ observed = {} /\ \A c \in Conts : ovl[c] = 0
  /\ processed[1] /\ attached[1] /\ wmUrl[1] = NoUrl /\ runs[1] >= 1
  /\ bakes # EmptyBag

\* The intersection callback for image i starts a process call that goes on.
Started(i) ==
  \/ runs'[i] > runs[i]
  \/ BagCardinality(bakes') > BagCardinality(bakes)

\* C19: the intersection callback for an image ends its observation, and it
\* starts processing only if none was started for the image in the current
\* generation.
C19_OneShotVisibility ==
  [][\A i \in Imgs : IOFire(i) =>
        /\ i \notin observed'
        /\ Started(i) => (runs[i] = 0 /\ BakesOf(i) = 0)]_vars


\* C20: a call of setOverlay for an image with a host attaches an overlay to
\* the host exactly when the host has none of its own, and touches no other
\* container: after it the host has exactly one overlay of its own.
C20_OverlayPerHost ==
  [][\A i \in Imgs :
        (BakeFails(i) /\ Host(i) # "none") =>
          /\ ovl'[Host(i)] = 1
          /\ ovl[Host(i)] = 1 => ovl' = ovl
          /\ \A c \in Conts \ {Host(i)} : ovl'[c] = ovl[c]]_vars


\* C21: when the page changes the source of a processed in-scope image that
\* is not opted out, the marker is cleared and the image is observed, loaded
\* or not.
C21_SwapRestartsObservation ==
  [][\A i \in Imgs :
        (gen'[i] > gen[i] /\ running /\ processed[i] /\ InScope(i) /\ ~noWm[i])
          => ~processed'[i] /\ i \in observed']_vars


\* The discovery filter: a selector matches, not processed, not excluded.
Eligible(i) == InScope(i) /\ Discoverable(i)

\* C22: when the page inserts an image, or an element with images below it,
\* observation begins for exactly the inserted images that pass the
\* discovery filter; a processed image that is put back is not observed.
C22_InsertRunsFilter ==
  [][\A i \in Imgs :
        /\ ExtInsert(i) =>
             observed' = observed \cup {j \in {i} : Eligible(j)'}
        /\ ExtReinsert(i) =>
             observed' = observed \cup
                           {j \in Imgs : Within(home[j], home[i]) /\ Eligible(j)'}]_vars


\* C23: the intersection callback for an image that exclude rejects at that
\* time starts no bake, attaches no overlay and sets no marker.
C23_ExcludedAtProcessing ==
  [][\A i \in Imgs :
        (IOFire(i) /\ exclude(i)) =>
          /\ bakes' = bakes /\ ovl' = ovl /\ processed' = processed
          /\ runs' = runs /\ created' = created /\ src' = src]_vars

\* Image 1, in scope and visible, was opted out while observed; it is no
\* longer observed and nothing was done to it.
C23_Witness ==
  /\ running /\ InScope(1) /\ noWm[1] /\ visible[1] /\ 1 \notin observed
  /\ css[1] = 300 /\ first[1] = "a" /\ shown[1] = ExtUrl(0)
  /\ ~processed[1] /\ runs[1] = 0 /\ created[1] = 0 /\ gen[1] = 0
  /\ bakes = EmptyBag /\ \A c \in Conts : ovl[c] = 0


\* C24: ensureLoaded adds no listener when the image is complete with a
\* natural width, else the listeners of one pending call; the load event
\* resolves and the error event rejects every pending call once, and after
\* either no listener of a settled call is left on the image.
C24_EnsureLoadedSettlesOnce ==
  [][\A i \in Imgs :
        /\ (IOFire(i) /\ ~Skips(i)) =>
             Waiting(i)' = Waiting(i) + (IF LoadedNow(i) THEN 0 ELSE 1)
        /\ (ImgLoad(i) \/ ImgError(i)) => Waiting(i)' = 0
        /\ (ImgLoad(i) /\ SizeOf(i, src[i])[1] # 0 /\ SizeOf(i, src[i])[2] # 0) =>
             CopiesIn(Prober(i, src[i]), bakes')
               = CopiesIn(Prober(i, src[i]), bakes) + Waiting(i)
        /\ (ImgError(i) /\ Waiting(i) > 0) =>
             /\ processed'[i]
             /\ \A b \in InFlight : b.pc # "load" =>
                  CopiesIn(b, bakes') = CopiesIn(b, bakes)]_vars

\* The first load of image 1 failed while a process call waited for it: the
\* call was rejected, took the overlay path, and no call is left waiting.
C24_Witness ==
  /\ gen[1] = 0 /\ src[1] = ExtUrl(0) /\ shown[1] = NoUrl /\ ~loading[1]
  /\ created[1] = 0 /\ processed[1] /\ runs[1] = 1 /\ Waiting(1) = 0


\* C26: when the layout has placed the text, the margin is max(12,
\* round(min(w, h) * 0.035)), the start is max(0, w - textW - margin) and not
\* left of the left edge, the baseline is max(fontPx + margin, h - margin),
\* and the top of the text, y - fontPx, is at least the margin below the top
\* edge, the margin being positive.
C26_AnchorInsideTopLeft ==
  lay.pc = "anchored" =>
    /\ lay.margin = Max(12, RoundMargin(Min(lay.w, lay.h)))
    /\ lay.margin > 0
    /\ lay.xStart = Max(0, (lay.w - lay.margin) * lay.base - lay.textW)
    /\ lay.xStart >= 0
    /\ lay.y = Max(lay.fontPx + lay.margin, lay.h - lay.margin)
    /\ lay.y - lay.fontPx >= lay.margin

\* The text is placed on a raster so short that the clamp of the baseline
\* acts: a margin above the bottom edge would put the top of the text above
\* the top margin.
C26_Witness ==
  /\ lay.pc = "anchored"
  /\ lay.h - lay.margin < lay.fontPx + lay.margin
  /\ lay.y = lay.fontPx + lay.margin


\* C29: when the layout has placed the text, the text block lies inside the
\* raster: it ends at or before the right edge, xStart + textW <= w, and its
\* baseline is at or above the bottom edge, y <= h.
C29_TextInsideRaster ==
  lay.pc = "anchored" =>
    /\ lay.xStart + lay.textW <= lay.w * lay.base
    /\ lay.y <= lay.h


\* ------------------------------------------------- one bakeWatermark call
\* One call of bakeWatermark followed from its first await to the way it
\* settles.  What the browser does at each step is fixed with the call:
\* whether the image loads, whether it has a size, whether the cross-origin
\* copy loads, whether the canvas gives a 2d context, whether toBlob throws
\* (the canvas is not origin-clean), whether its callback gets a blob, and
\* whether toDataURL returns.
CallInputs == [loads : BOOLEAN, sized : BOOLEAN, granted : BOOLEAN,
               ctx : BOOLEAN, clean : BOOLEAN, blob : BOOLEAN,
               data : BOOLEAN]

\* The rejection of the inner catch of the export, line 162.
TaintedAsExport == "toDataURL"

\* The rejection of the outer catch of the export, line 170.
Tainted == "tainted"

Reject(e) == call' = [call EXCEPT !.pc = "rejected", !.err = e]
Resolve(k) == call' = [call EXCEPT !.pc = "resolved", !.url = k]
Goto(pc) == call' = [call EXCEPT !.pc = pc]

\* Line 75: await ensureLoaded(img).
CallLoaded ==
  /\ call.pc = "load"
  /\ IF call.in.loads THEN Goto("size") ELSE Reject("img-error")
  /\ UNCHANGED <<engine, lay, route, req, rev>>

\* Lines 77-79: if (!w || !h) throw new Error("no-size").
CallSize ==
  /\ call.pc = "size"
  /\ IF call.in.sized THEN Goto("probe") ELSE Reject("no-size")
  /\ UNCHANGED <<engine, lay, route, req, rev>>

\* Lines 82-92: the cross-origin copy loads or is refused.
CallProbe ==
  /\ call.pc = "probe"
  /\ IF call.in.granted THEN Goto("ctx") ELSE Reject("cors-blocked")
  /\ UNCHANGED <<engine, lay, route, req, rev>>

\* Lines 94-98: if (!ctx) throw new Error("ctx").
CallContext ==
  /\ call.pc = "ctx"
  /\ IF call.in.ctx THEN Goto("toBlob") ELSE Reject("ctx")
  /\ UNCHANGED <<engine, lay, route, req, rev>>

\* Lines 150-152 and 169-171: canvas.toBlob is called inside a try; if it
\* throws, the promise is rejected there and the callback never runs.
CallToBlob ==
  /\ call.pc = "toBlob"
  /\ IF call.in.clean THEN Goto("callback") ELSE Reject(Tainted)
  /\ UNCHANGED <<engine, lay, route, req, rev>>

\* Lines 153-164: the callback of toBlob.
CallCallback ==
  /\ call.pc = "callback"
  /\ IF call.in.blob THEN Resolve("blob")
     ELSE IF call.in.data THEN Resolve("data")
     ELSE Reject("toDataURL")
  /\ UNCHANGED <<engine, lay, route, req, rev>>

InitCall ==
  /\ OneBake
  /\ lay = NoLayout
  /\ route = NoRoute
  /\ req = NoReq
  /\ rev = NoRev
  /\ \E in \in CallInputs :
       call = [pc |-> "load", in |-> in, err |-> "", url |-> ""]

NextCall ==
  \/ CallLoaded \/ CallSize \/ CallProbe
  \/ CallContext \/ CallToBlob \/ CallCallback

SpecCall == InitCall /\ [][NextCall]_vars

\* The failure kind each rejection of bakeWatermark stands for: "tainted" is
\* the pixel read denied at export, "cors-blocked" the one denied at the
\* probe.
FailureKind(e) ==
  CASE e = "img-error" -> "LoadFailure"
    [] e = "no-size" -> "NoSize"
    [] e \in {"cors-blocked", "tainted"} -> "CorsBlocked"
    [] e = "toDataURL" -> "ExportFailure"
    [] OTHER -> "none"

\* C25: a call whose probe succeeded and whose canvas is tainted at export is
\* rejected with the kind of a probe rejection, CorsBlocked, and not with
\* ExportFailure; a call is rejected with ExportFailure only when the canvas
\* was not tainted, toBlob gave no blob and toDataURL failed as well.
C25_TaintIsCorsBlocked ==
  call.pc = "rejected" =>
    /\ (call.in.loads /\ call.in.sized /\ call.in.granted /\ call.in.ctx
          /\ ~call.in.clean)
         => /\ FailureKind(call.err) = FailureKind("cors-blocked")
            /\ FailureKind(call.err) # "ExportFailure"
    /\ FailureKind(call.err) = "ExportFailure"
         => call.in.clean /\ ~call.in.blob /\ ~call.in.data

\* A call was rejected at export on a tainted canvas after its probe
\* succeeded, with a canvas that would have given no blob and no data URI.
C25_Witness ==
  /\ call.pc = "rejected"
  /\ call.in.granted /\ call.in.ctx /\ ~call.in.clean
  /\ ~call.in.blob /\ ~call.in.data
  /\ call.err = "tainted"


\* C27: a bake that read the pixels of an earlier source of the image (its
\* generation is not the image's current one) and resolves with a URL does
\* not write that URL to the image and does not mark the image processed.
C27_StaleResultDropped ==
  [][\A b \in InFlight : \A out \in {"blob", "data"} :
       (b.g # gen[b.img] /\ ExportSettle(b, out)) =>
         /\ src'[b.img] = src[b.img]
         /\ processed'[b.img] => processed[b.img]]_vars


\* Image i carries a watermark: its source is the baked one, or its
\* container has an overlay.
Watermarked(i) ==
  \/ ShowsBaked(i)
  \/ Host(i) # "none" /\ HasOverlayIn(Host(i), ovl)

\* C28: when the engine starts again after a teardown, every in-scope,
\* loaded, visible image of at least 120x120 without opt-out that carries no
\* watermark is taken under observation by the new instance, so that it is
\* processed again; the marker left by the previous instance does not make
\* the new one skip it.
C28_RemountProcessesAgain ==
  [][Mount =>
       \A i \in Imgs :
         (InScope(i) /\ ~noWm[i] /\ visible[i] /\ ~loading[i]
            /\ naturalWidth(i) >= MinSize /\ naturalHeight(i) >= MinSize
            /\ ~Watermarked(i))
         => i \in observed']_vars


\* --------------------------------------------------------- ProtectedRoute
\* One render of ProtectedRoute.  A path is a sequence of tokens, each a
\* reserved character or a run of unreserved ones.
UserTypes == {"buyer", "seller", "agent", "admin", "staff"}

Slash(word) == <<"/", word>>

\* The values a render is given: the props, what useFirebaseAuth returns
\* and what useLocation returns.  A user without userType has "".
FallbackPaths == {Slash("auth"), Slash("login")}
Pathnames == {Slash("auth"), Slash("admin"), Slash("seller-dashboard"),
              Slash("post-property")}
Searches == {<<>>, <<"?", "redirect", "=", "%2F", "admin">>}
Users == {[present |-> FALSE, userType |-> ""]}
           \cup [present : {TRUE}, userType : UserTypes \cup {""}]
Required == {{}, {"seller"}, {"admin", "staff"}}

RouteInputs ==
  [requiredUserTypes : Required, fallbackPath : FallbackPaths,
   requireAuth : BOOLEAN, isAuthenticated : BOOLEAN, user : Users,
   loading : BOOLEAN, pathname : Pathnames, search : Searches]

\* encodeURIComponent, token by token.
EncodeToken(t) ==
  CASE t = "/" -> "%2F"
    [] t = "?" -> "%3F"
    [] t = "=" -> "%3D"
    [] t = "%2F" -> "%252F"
    [] OTHER -> t

encodeURIComponent(path) == [k \in 1..Len(path) |-> EncodeToken(path[k])]

\* Lines 58-66: dashboardRoutes[user.userType] || "/".
userDashboard(userType) ==
  CASE userType = "seller" -> Slash("seller-dashboard")
    [] userType = "buyer" -> Slash("buyer-dashboard")
    [] userType = "agent" -> Slash("agent-dashboard")
    [] userType = "admin" -> Slash("admin")
    [] userType = "staff" -> Slash("staff-dashboard")
    [] OTHER -> <<"/">>

Spinner == [k |-> "spinner", to |-> <<>>]
Children == [k |-> "children", to |-> <<>>]
Navigate(to) == [k |-> "navigate", to |-> to]

\* A guard that never finds the location on the target.
NeverAt(pathname, target) == FALSE

\* The loop guards: location.pathname === target.
AlreadyAt(pathname, target) == pathname = target

\* Lines 18-78: what ProtectedRoute returns for the values p.
ProtectedRoute(p) ==
  LET currentPath == p.pathname \o p.search
      redirectPath == p.fallbackPath \o <<"?", "redirect", "=">>
                        \o encodeURIComponent(currentPath)
  IN IF p.loading THEN Spinner
     ELSE IF p.requireAuth /\ ~p.isAuthenticated
     THEN IF AlreadyAt(p.pathname, p.fallbackPath) \/ currentPath = redirectPath
          THEN Children
          ELSE Navigate(redirectPath)
     ELSE IF p.isAuthenticated /\ p.user.present
               /\ Cardinality(p.requiredUserTypes) > 0
               /\ p.user.userType = ""
     THEN IF AlreadyAt(p.pathname, p.fallbackPath)
          THEN Children
          ELSE Navigate(p.fallbackPath)
     ELSE IF p.isAuthenticated /\ p.user.present
               /\ Cardinality(p.requiredUserTypes) > 0
               /\ p.user.userType \notin p.requiredUserTypes
     THEN IF AlreadyAt(p.pathname, userDashboard(p.user.userType))
          THEN Children
          ELSE Navigate(userDashboard(p.user.userType))
     ELSE Children

\* The component renders.
RouteRender ==
  /\ route.pc = "render"
  /\ route' = [route EXCEPT !.pc = "done", !.out = ProtectedRoute(route.in)]
  /\ UNCHANGED <<engine, lay, call, req, rev>>

\* A page without the watermarked surface: no image, no engine.
NoSurface ==
  /\ doc = {}
  /\ home = [i \in Imgs |-> "plain"]
  /\ dataWm = [i \in Imgs |-> FALSE]
  /\ css = [i \in Imgs |-> 0]
  /\ first = [i \in Imgs |-> "a"]
  /\ cors = [i \in Imgs |-> TRUE]
  /\ keeps = TRUE
  /\ may = [i \in Imgs |-> {}]
  /\ loading = [i \in Imgs |-> FALSE]
  /\ attached = [i \in Imgs |-> FALSE]
  /\ noWm = [i \in Imgs |-> FALSE]
  /\ visible = [i \in Imgs |-> FALSE]
  /\ src = [i \in Imgs |-> ExtUrl(0)]
  /\ shown = [i \in Imgs |-> ExtUrl(0)]
  /\ processed = [i \in Imgs |-> FALSE]
  /\ wmUrl = [i \in Imgs |-> NoUrl]
  /\ revoked = {}
  /\ created = [i \in Imgs |-> 0]
  /\ gen = [i \in Imgs |-> 0]
  /\ runs = [i \in Imgs |-> 0]
  /\ fromBaked = [i \in Imgs |-> FALSE]
  /\ scans = 0
  /\ running = FALSE
  /\ ovl = [c \in Conts |-> 0]
  /\ bakes = EmptyBag
  /\ unhandled = FALSE
  /\ observed = {}

InitRoute ==
  /\ NoSurface
  /\ lay = NoLayout
  /\ call = NoCall
  /\ req = NoReq
  /\ rev = NoRev
  /\ \E in \in RouteInputs : route = [pc |-> "render", in |-> in, out |-> Spinner]

NextRoute == RouteRender

SpecRoute == InitRoute /\ [][NextRoute]_vars

\* C30: a ProtectedRoute with requireAuth and a non-empty requiredUserTypes
\* that rendered its children was given loading false, isAuthenticated true,
\* a user, and a userType among requiredUserTypes; for all other values it
\* rendered the spinner or a Navigate.
C30_ChildrenOnlyForAuthorised ==
  (route.pc = "done" /\ route.in.requireAuth
     /\ route.in.requiredUserTypes # {} /\ route.out.k = "children")
  => /\ ~route.in.loading
     /\ route.in.isAuthenticated
     /\ route.in.user.present
     /\ route.in.user.userType \in route.in.requiredUserTypes


\* -------------------------------------------------------- PublicOnlyRoute
\* What a render of PublicOnlyRoute is given: it has no props but children.
PublicInputs ==
  [isAuthenticated : BOOLEAN, user : Users, loading : BOOLEAN,
   pathname : Pathnames \cup {Slash("buyer-dashboard")}, search : Searches]

\* Lines 118-156: what PublicOnlyRoute returns for the values p.
PublicOnlyRoute(p) ==
  LET currentPath == p.pathname \o p.search
      dashboard == userDashboard(p.user.userType)
  IN IF p.loading THEN Spinner
     ELSE IF p.isAuthenticated /\ p.user.present
     THEN IF AlreadyAt(p.pathname, dashboard) \/ currentPath = dashboard
          THEN Children
          ELSE Navigate(dashboard)
     ELSE Children

\* The component renders.
PublicRender ==
  /\ route.pc = "renderPublic"
  /\ route' = [route EXCEPT !.pc = "done", !.out = PublicOnlyRoute(route.in)]
  /\ UNCHANGED <<engine, lay, call, req, rev>>

\* Either guard is about to render.
InitGuards ==
  /\ NoSurface
  /\ lay = NoLayout
  /\ call = NoCall
  /\ req = NoReq
  /\ rev = NoRev
  /\ \/ \E in \in RouteInputs :
          route = [pc |-> "render", in |-> in, out |-> Spinner]
     \/ \E in \in PublicInputs :
          route = [pc |-> "renderPublic", in |-> in, out |-> Spinner]

NextGuards == RouteRender \/ PublicRender

SpecGuards == InitGuards /\ [][NextGuards]_vars

\* The pathname of a path: its tokens before the first "?".
RECURSIVE PathnameOf(_)
PathnameOf(path) ==
  IF path = <<>> \/ Head(path) = "?" THEN <<>>
  ELSE <<Head(path)>> \o PathnameOf(Tail(path))

Transports == {"fetch", "xhr"}
Methods == {"GET", "POST"}
Statuses == {200, 404, 500}

Ok(status) == status >= 200 /\ status < 300

Pending == [k |-> "pending", ok |-> FALSE, status |-> 0, name |-> ""]
Resolved(status) ==
  [k |-> "resolved", ok |-> Ok(status), status |-> status, name |-> ""]

\* Line 131 and 150: clearTimeout(timeoutId); a timer that has fired stays so.
clearTimeout(timer) == IF timer = "armed" THEN "cleared" ELSE timer

\* The catch of line 141 starts the fallback without looking at the error.
Fallback141(cause) ==
  req' = [req EXCEPT !.pc = "xhr", !.cause = cause]

\* The browser puts the request of fetch on the wire.
FetchTransmit ==
  /\ req.pc = "fetch" /\ ~req.fetchTx
  /\ req' = [req EXCEPT !.fetchTx = TRUE]
  /\ UNCHANGED <<engine, lay, call, route, rev>>

\* Line 130: fetch rejects with a TypeError, before the request left or
\* after (connection lost while waiting for the answer).
FetchFail ==
  /\ req.pc = "fetch"
  /\ Fallback141("TypeError")
  /\ UNCHANGED <<engine, lay, call, route, rev>>

\* Lines 130-131: the response arrives; the timer is cleared and the body is
\* being read.
FetchRespond(status) ==
  /\ req.pc = "fetch" /\ req.fetchTx
  /\ req' = [req EXCEPT !.pc = "read", !.status = status,
                        !.timer = clearTimeout(@)]
  /\ UNCHANGED <<engine, lay, call, route, rev>>

\* Lines 139-140: safeReadResponse returns, or throws into the catch of
\* line 141.
ReadSettle(throws) ==
  /\ req.pc = "read"
  /\ IF throws
     THEN Fallback141("read")
     ELSE req' = [req EXCEPT !.pc = "done", !.result = Resolved(req.status)]
  /\ UNCHANGED <<engine, lay, call, route, rev>>

\* Lines 33-38: the timer fires and aborts the controller; a pending fetch
\* rejects with an AbortError.  The XMLHttpRequest does not use the signal.
TimerFires ==
  /\ req.pc # "off" /\ req.timer = "armed"
  /\ IF req.pc = "fetch"
     THEN req' = [req EXCEPT !.pc = "xhr", !.cause = "AbortError",
                             !.timer = "fired"]
     ELSE req' = [req EXCEPT !.timer = "fired"]
  /\ UNCHANGED <<engine, lay, call, route, rev>>

\* The browser puts the request of the XMLHttpRequest on the wire.
XhrTransmit ==
  /\ req.pc = "xhr" /\ ~req.xhrTx
  /\ req' = [req EXCEPT !.xhrTx = TRUE]
  /\ UNCHANGED <<engine, lay, call, route, rev>>

\* Lines 71-111: every way xhrFallback settles resolves its promise: an
\* answer with a status, ontimeout (408), onerror (0), or a throw of
\* open/send caught at line 104 (0).
XhrOutcomes == {"answer", "timeout", "error", "throws"}

XhrStatus(out, status) ==
  CASE out = "answer" -> status
    [] out = "timeout" -> 408
    [] OTHER -> 0

\* Lines 115-124 against 149-150: only the fallback path clears the timer.
Clears(transport) == transport = "fetch"

XhrSettle(out, status) ==
  /\ req.pc = "xhr"
  /\ out = "answer" => req.xhrTx
  /\ out = "throws" => ~req.xhrTx
  /\ req' = [req EXCEPT !.pc = "done",
                        !.result = Resolved(XhrStatus(out, status)),
                        !.timer = IF Clears(req.in.transport)
                                  THEN clearTimeout(@) ELSE @]
  /\ UNCHANGED <<engine, lay, call, route, rev>>

\* api() has returned: the timer is armed and fetch, or with o.transport
\* "xhr" the XMLHttpRequest, has been started.
InitApi ==
  /\ NoSurface
  /\ lay = NoLayout
  /\ call = NoCall
  /\ route = NoRoute
  /\ rev = NoRev
  /\ \E in \in [transport : Transports, method : Methods] :
       req = [pc |-> in.transport, in |-> in, timer |-> "armed",
              fetchTx |-> FALSE, xhrTx |-> FALSE, cause |-> "",
              status |-> 0, result |-> Pending]

NextApi ==
  \/ FetchTransmit
  \/ FetchFail
  \/ \E status \in Statuses : FetchRespond(status)
  \/ \E throws \in BOOLEAN : ReadSettle(throws)
  \/ TimerFires
  \/ XhrTransmit
  \/ \E out \in XhrOutcomes : \E status \in Statuses : XhrSettle(out, status)

SpecApi == InitApi /\ [][NextApi]_vars

\* C32: the request of one call is put on the wire at most once: never by
\* fetch and by the XMLHttpRequest both.
C32_TransmittedOnce == ~(req.pc # "off" /\ req.fetchTx /\ req.xhrTx)

\* The call is over, and both the fetch and the XMLHttpRequest failed.
BothFailed ==
  /\ req.pc = "done"
  /\ req.cause # ""
  /\ req.result.k = "resolved" => req.result.status \in {0, 408}

\* C33: a call whose fetch and whose XMLHttpRequest both failed has rejected
\* with a TimeoutError or a NetworkError, and when a call is over, by either
\* transport, its timer is no longer armed.
C33_RejectsAndClearsTimer ==
  /\ BothFailed =>
       /\ req.result.k = "rejected"
       /\ req.result.name \in {"TimeoutError", "NetworkError"}
  /\ req.pc = "done" => req.timer # "armed"


\* ------------------------------------------------------------ ReviewsList
\* A mounted ReviewsList.  Its props (targetId, targetType, limit) are a
\* version number; a load is the call of load() with the props it closed
\* over; the items shown are [] (initially, or from a failed or aborted
\* request) or the reviews of some version of the props.
MaxLoads == 4
MaxProps == 1

Empty == [k |-> "empty", of |-> 0]
Reviews(v) == [k |-> "reviews", of |-> v]

\* Line 474: abortRef.current?.abort(), on the loads in flight.
Abort(loads, id) ==
  {IF l.id = id THEN [l EXCEPT !.aborted = TRUE] ELSE l : l \in loads}

\* Lines 472-481: load() aborts the previous controller, makes a new one and
\* starts fetchApprovedReviews with the props v.
Load(r, v) ==
  [r EXCEPT !.loads = Abort(r.loads, r.latest)
                        \cup {[id |-> r.started + 1, aborted |-> FALSE, of |-> v]},
            !.latest = r.started + 1,
            !.started = r.started + 1]

\* Line 497: the interval calls load.
RevInterval ==
  /\ rev.pc = "mounted" /\ rev.started < MaxLoads
  /\ rev' = Load(rev, rev.props)
  /\ UNCHANGED <<engine, lay, call, route, req>>

\* Lines 494-502: a prop changes: the cleanup aborts the current controller,
\* the effect sets loading and calls load with the new props.
RevProps ==
  /\ rev.pc = "mounted" /\ rev.started < MaxLoads /\ rev.props < MaxProps
  /\ rev' = Load([rev EXCEPT !.loading = TRUE, !.props = @ + 1],
                 rev.props + 1)
  /\ UNCHANGED <<engine, lay, call, route, req>>

\* Lines 498-501 at unmount: the interval is cleared, the controller aborted.
RevUnmount ==
  /\ rev.pc = "mounted"
  /\ rev' = [rev EXCEPT !.pc = "unmounted",
                        !.loads = Abort(rev.loads, rev.latest)]
  /\ UNCHANGED <<engine, lay, call, route, req>>

\* reviewsApi.ts 18-64: what fetchApprovedReviews returns: for an aborted
\* signal the catch of line 61 gives []; else the reviews, or [] when both
\* requests fail.
Fetched(l, fails) ==
  IF l.aborted \/ fails THEN Empty ELSE Reviews(l.of)

\* Lines 476-491: the await of load l ends: setItems(data), and in the
\* finally setLoading(false).  After unmount the setters do nothing.
RevSettle(l, fails) ==
  /\ rev.pc # "off" /\ l \in rev.loads
  /\ rev' = IF rev.pc = "mounted"
            THEN [rev EXCEPT !.loads = @ \ {l},
                             !.items = Fetched(l, fails),
                             !.loading = FALSE]
            ELSE [rev EXCEPT !.loads = @ \ {l}]
  /\ UNCHANGED <<engine, lay, call, route, req>>

\* The component has mounted: loading is true and the first load started.
InitReviews ==
  /\ NoSurface
  /\ lay = NoLayout
  /\ call = NoCall
  /\ route = NoRoute
  /\ req = NoReq
  /\ rev = Load([pc |-> "mounted", props |-> 0, items |-> Empty,
                 loading |-> TRUE, loads |-> {}, latest |-> 0,
                 started |-> 0], 0)

NextReviews ==
  \/ RevInterval
  \/ RevProps
  \/ RevUnmount
  \/ \E l \in rev.loads : \E fails \in BOOLEAN : RevSettle(l, fails)

SpecReviews == InitReviews /\ [][NextReviews]_vars

\* C34: when a load that was aborted by a later load settles while that
\* later load is still in flight, the items shown and the loading flag stay
\* as they were.
C34_SupersededLoadIgnored ==
  [][\A l \in rev.loads : \A fails \in BOOLEAN :
       (/\ rev.pc = "mounted" /\ l.aborted
        /\ \E m \in rev.loads : m.id = rev.latest /\ m.id > l.id
        /\ RevSettle(l, fails))
       => rev'.items = rev.items /\ rev'.loading = rev.loading]_vars

================================================================
